---- MODULE Spec2Model ----
(***************************************************************************)
(* A model of the submitTransaction command                                *)
(* (src/extension/commands/submitTransaction.ts) and of the functional     *)
(* test template (src/unnamed/part_000) of the blockchain VSCode           *)
(* extension.                                                              *)
(*                                                                         *)
(* The command is an async function: every `await` is a suspension point.  *)
(* One action of the model is the code that runs between two suspension    *)
(* points; its input is the value (or the exception) the awaited           *)
(* collaborator produces.  While the command is suspended the gateway may  *)
(* be connected or disconnected by other commands.                         *)
(***************************************************************************)
EXTENDS Integers, Sequences, FiniteSets, TLC

(***************************************************************************)
(* Bounds of the model.                                                    *)
(***************************************************************************)
MaxStrLen == 2        \* every input string of at most this many characters
MaxPeers == 2         \* peers getChannelPeersInfo may return
MaxEndorsements == 1  \* endorsements carried by an SDK error
MaxParams == 2        \* declared parameters of a transaction (template)

(***************************************************************************)
(* Strings typed by the user.  A string is a sequence of characters; a     *)
(* JSON string literal ("a", "b") and a JSON number (1) count as one       *)
(* character each, since the code only looks at the first and the last     *)
(* character and hands the rest to JSON.parse.                             *)
(***************************************************************************)
Alphabet == {"[", "]", "{", "}", ",", ":", "a"}

StringLiterals == {"a", "b"}

SeqsUpTo(S, n) == UNION {[1..k -> S] : k \in 0..n}

\* Longer inputs, with the characters left out of Alphabet.
Samples ==
    { <<"[", ",", "]">>,
      <<"[", "1", "]">>,
      <<" ", "[", "]">>,
      <<"[", "a", ",", "{", "a", ":", "b", "}", "]">>,
      <<"{", " ", "}">>,
      <<" ", "{", "}">>,
      <<"{", "a", ":", "1", "}">>,
      <<"{", "a", ":", "b", ",", "b", ":", "[", "1", "]", "}">>,
      <<"{", "a", ":", "b", ",", "b", ":", "{", "}", "}">>,
      <<"{", "a", ":", "b", ",", "a", ":", "a", "}">>,
      <<"{", "a", ":", "b", ",", "}">> }

Strings == SeqsUpTo(Alphabet, MaxStrLen) \cup Samples

startsWith(s, c) == Len(s) > 0 /\ s[1] = c

endsWith(s, c) == Len(s) > 0 /\ s[Len(s)] = c

(***************************************************************************)
(* JSON values and JSON.parse, a recursive-descent parser of the JSON      *)
(* grammar over the characters above.                                      *)
(***************************************************************************)
Undefined == [t |-> "undefined"]

JStr(c) == [t |-> "str", s |-> c]

JNum == [t |-> "num"]

JArr(items) == [t |-> "arr", items |-> items]

JObj(members) == [t |-> "obj", members |-> members]

ParseFail == [ok |-> FALSE, val |-> Undefined, rest |-> <<>>]

ParseOk(v, rest) == [ok |-> TRUE, val |-> v, rest |-> rest]

RECURSIVE ParseValue(_), ParseElements(_, _), ParseMembers(_, _)

ParseValue(s) ==
    IF s = <<>> THEN ParseFail
    ELSE LET h == Head(s)
             r == Tail(s)
         IN  CASE h \in StringLiterals -> ParseOk(JStr(h), r)
               [] h = "1" -> ParseOk(JNum, r)
               [] h = "[" -> IF startsWith(r, "]")
                                THEN ParseOk(JArr(<<>>), Tail(r))
                                ELSE ParseElements(r, <<>>)
               [] h = "{" -> IF startsWith(r, "}")
                                THEN ParseOk(JObj(<<>>), Tail(r))
                                ELSE ParseMembers(r, <<>>)
               [] OTHER -> ParseFail

\* element (',' element)* ']'
ParseElements(s, acc) ==
    LET e == ParseValue(s)
    IN  IF ~e.ok THEN ParseFail
        ELSE IF startsWith(e.rest, ",")
                THEN ParseElements(Tail(e.rest), Append(acc, e.val))
        ELSE IF startsWith(e.rest, "]")
                THEN ParseOk(JArr(Append(acc, e.val)), Tail(e.rest))
        ELSE ParseFail

\* string ':' element (',' string ':' element)* '}' ; a repeated key keeps
\* the last value.
ParseMembers(s, acc) ==
    IF Len(s) < 2 \/ s[1] \notin StringLiterals \/ s[2] # ":" THEN ParseFail
    ELSE LET e == ParseValue(Tail(Tail(s)))
             m == (s[1] :> e.val) @@ acc
         IN  IF ~e.ok THEN ParseFail
             ELSE IF startsWith(e.rest, ",")
                     THEN ParseMembers(Tail(e.rest), m)
             ELSE IF startsWith(e.rest, "}")
                     THEN ParseOk(JObj(m), Tail(e.rest))
             ELSE ParseFail

\* JSON.parse: whitespace between tokens is skipped, trailing text is an
\* error.  ok = FALSE stands for the SyntaxError it throws.
JSONparse(s) ==
    LET p == ParseValue(SelectSeq(s, LAMBDA c : c # " "))
    IN  IF p.ok /\ p.rest = <<>> THEN [ok |-> TRUE, val |-> p.val]
        ELSE [ok |-> FALSE, val |-> Undefined]


(***************************************************************************)
(* Buffer.from(value): a string or an array converts, a number or a plain  *)
(* object raises a TypeError (ok = FALSE).                                 *)
(***************************************************************************)
\* BufferFrom as a conversion that never throws.
BufferFromAny(v) == [ok |-> TRUE, val |-> [t |-> "buf", from |-> v]]

BufferFrom(v) == [ok |-> v.t \in {"str", "arr"}, val |-> [t |-> "buf", from |-> v]]

(***************************************************************************)
(* The state of the command.                                               *)
(***************************************************************************)
VARIABLES
    pc,                  \* the await the command is suspended at, "idle" or "done"
    outcome,             \* the returned promise: "none", "pending", "resolved", "rejected"
    evaluate,            \* parameter evaluate
    entry,               \* which arguments were passed: "none", "instantiated", "transaction", "explicit"
    argsString,          \* the reply of the arguments input box
    args,                \* local args
    transientDataString, \* the reply of the transient-data input box
    transientData,       \* local transientData
    connection,          \* local connection: "unset", "live", "null"
    channelPeerInfo,     \* the reply of getChannelPeersInfo
    selectPeers,         \* local selectPeers: unset, undefined, DEFAULT or CUSTOM
    peerTargets,         \* the reply of the peer-selection quick-pick
    peerTargetNames,     \* local peerTargetNames
    reply,               \* the latest reply of an awaited collaborator, and whose
    trace,               \* every call the invocation made on a collaborator, in order
    conn,                \* FabricConnectionManager: a connection is held
    transaction,         \* template: the transaction of the current forEach iteration
    generated            \* template: what the iteration emitted

cmdVars == <<pc, outcome, evaluate, entry, argsString, args, transientDataString,
             transientData, connection, channelPeerInfo, selectPeers,
             peerTargets, peerTargetNames, reply, trace>>

tplVars == <<transaction, generated>>

vars == <<cmdVars, conn, tplVars>>

DEFAULT == "DEFAULT"

CUSTOM == "CUSTOM"

\* The three words chosen from the evaluate flag.
Words(e) ==
    IF e THEN [action |-> "evaluate", actioning |-> "evaluating", actioned |-> "evaluated"]
    ELSE [action |-> "submit", actioning |-> "submitting", actioned |-> "submitted"]

action == Words(evaluate).action

actioning == Words(evaluate).actioning

actioned == Words(evaluate).actioned

\* What an awaited collaborator produces.
Value(v) == [kind |-> "value", val |-> v]

Cancelled == [kind |-> "undefined"]

Throws == [kind |-> "throws"]

Unset == [kind |-> "unset"]

\* The calls recorded in trace.
Log(type, text) == [op |-> "log", type |-> type, text |-> text]

Prompt(which) == [op |-> "prompt", which |-> which]

Call(name) == [op |-> name]

Distinct(l) == \A i, j \in 1..Len(l) : i # j => l[i] # l[j]

\* The peer lists getChannelPeersInfo may return; a peer is named by its
\* number.
PeerLists == {[i \in 1..n |-> i] : n \in 0..MaxPeers}

\* The quick-pick item of a peer.
PeerItem(name) == [label |-> name, data |-> name]

\* The selections the multi-select quick-pick of the channel's peers may
\* return: items of distinct peers of info, in any order, possibly none.
Selections(info) ==
    {[i \in 1..Len(l) |-> PeerItem(l[i])] :
        l \in {m \in SeqsUpTo({info[i] : i \in 1..Len(info)}, Len(info)) : Distinct(m)}}

NoReply == [from |-> "none", reply |-> Unset]

Idle ==
    /\ pc = "idle" /\ outcome = "none" /\ evaluate = FALSE /\ entry = "none"
    /\ argsString = Unset /\ args = JArr(<<>>)
    /\ transientDataString = Unset /\ transientData = Undefined
    /\ connection = "unset" /\ channelPeerInfo = Unset
    /\ selectPeers = Unset /\ peerTargets = Unset /\ peerTargetNames = <<>>
    /\ reply = NoReply /\ trace = <<>>

NoTransaction == [given |-> FALSE]

InitTemplate == transaction = NoTransaction /\ generated = NoTransaction

Init == Idle /\ conn = FALSE /\ InitTemplate

\* The command returns (resolves) or throws (rejects) with trace t.
Return(t) ==
    /\ pc' = "done" /\ outcome' = "resolved" /\ trace' = t

Reject(t) ==
    /\ pc' = "done" /\ outcome' = "rejected" /\ trace' = t

\* The command suspends at await p with trace t.
Await(p, t) ==
    /\ pc' = p /\ outcome' = "pending" /\ trace' = t


(***************************************************************************)
(* The pure steps of the command.                                          *)
(***************************************************************************)
\* ParseArgs with a catch block that goes on with no arguments instead of
\* returning.
ParseArgsSwallow(s) ==
    IF s = <<>> \/ ~startsWith(s, "[") \/ ~endsWith(s, "]") \/ ~JSONparse(s).ok
       THEN [ok |-> TRUE, val |-> JArr(<<>>)]
    ELSE JSONparse(s)

\* Lines 87-98: the arguments string; ok = FALSE when the try block throws.
ParseArgs(s) ==
    IF s = <<>> THEN [ok |-> TRUE, val |-> JArr(<<>>)]
    ELSE IF ~startsWith(s, "[") \/ ~endsWith(s, "]")
            THEN [ok |-> FALSE, val |-> Undefined]
    ELSE JSONparse(s)

\* Lines 108-118: the transient-data string; ok = FALSE when the format
\* check, JSON.parse or Buffer.from throws.
ParseTransient(s) ==
    IF s # <<>> /\ s # <<"{", "}">>
    THEN IF ~startsWith(s, "{") \/ ~endsWith(s, "}")
            THEN [ok |-> FALSE, val |-> Undefined]
         ELSE LET p == JSONparse(s)
              IN  IF ~p.ok THEN [ok |-> FALSE, val |-> Undefined]
                  ELSE LET m == p.val.members
                       IN  IF \E k \in DOMAIN m : ~BufferFrom(m[k]).ok
                              THEN [ok |-> FALSE, val |-> Undefined]
                           ELSE [ok |-> TRUE,
                                 val |-> JObj([k \in DOMAIN m |-> BufferFrom(m[k]).val])]
    ELSE [ok |-> TRUE, val |-> Undefined]

\* PeerPolicy without the check for an empty peer list.
PeerPolicyNoAbort(info) == IF Len(info) <= 1 THEN DEFAULT ELSE "ask"

\* Lines 129-136: what the number of channel peers decides.
PeerPolicy(info) ==
    IF Len(info) = 0 THEN "abort"
    ELSE IF Len(info) = 1 THEN DEFAULT
    ELSE "ask"

\* PeerTargeting without the return on an undefined policy.
PeerTargetingNoReturn(sel) ==
    IF sel # Cancelled /\ sel.val = CUSTOM THEN CUSTOM ELSE DEFAULT

\* Lines 141-143: what the resolved policy decides: the command returns
\* when no policy was picked, asks for the peers under CUSTOM, and goes on
\* with no peer target otherwise.
PeerTargeting(sel) ==
    IF sel = Cancelled THEN "return"
    ELSE IF sel.val = CUSTOM THEN CUSTOM
    ELSE DEFAULT

\* MapData that loses the selection order.
MapDataReversed(items) == [i \in 1..Len(items) |-> items[Len(items) + 1 - i].data]

\* Lines 150-152: peerTargets.map(peer => peer.data).
MapData(items) == [i \in 1..Len(items) |-> items[i].data]

\* Lines 164-183: the progress callback up to the awaited SDK call, with
\* trace t so far, peer targets names and getGatewayRegistryEntry giving reg
\* ("local": the local fabric entry, "other", or "throws").
ProgressBody(t, names, reg) ==
    LET t1 == Append(t, Log("INFO", <<actioning, "transaction",
                        IF Len(args.items) = 0 THEN "with no args" ELSE "with args",
                        names>>))
        t2 == Append(t1, Call("getGatewayRegistryEntry"))
        t3 == IF reg = "local" THEN Append(t2, Call("dockerShow")) ELSE t2
    IN  IF reg = "throws"
           THEN [pc |-> "done",
                 trace |-> Append(t2, Log("ERROR", <<"Error", actioning, "transaction">>))]
        ELSE [pc |-> "sdk",
              trace |-> Append(t3, [op |-> "submitTransaction",
                                    args |-> args,
                                    transientData |-> transientData,
                                    evaluateOnly |-> evaluate,
                                    peerTargets |-> names])]

\* OnReturn without the telemetry event.
OnReturnNoTelemetry(t, r) ==
    t \o << Log("SUCCESS", <<"Successfully", actioned, "transaction",
                IF r = Cancelled THEN "No value returned" ELSE "Returned value">>),
            Call("show") >>

\* Lines 185-195: the SDK call returned r.
OnReturn(t, r) ==
    t \o << [op |-> "sendTelemetryEvent", name |-> <<action, "transaction">>],
            Log("SUCCESS", <<"Successfully", actioned, "transaction",
                IF r = Cancelled THEN "No value returned" ELSE "Returned value">>),
            Call("show") >>

\* OnError without the loop over the endorsements.
OnErrorNoEndorsements(t, error) ==
    Append(t, Log("ERROR", <<"Error", actioning, "transaction">>))

\* Lines 196-203: the SDK call threw error.
OnError(t, error) ==
    Append(t, Log("ERROR", <<"Error", actioning, "transaction">>))
    \o (IF error.hasEndorsements
           THEN [i \in 1..Len(error.endorsements) |->
                    Log("ERROR", <<"Endorsement failed with", error.endorsements[i]>>)]
        ELSE <<>>)

\* The errors connection.submitTransaction may throw.
SdkErrors ==
    {[kind |-> "throws", hasEndorsements |-> FALSE, endorsements |-> <<>>]}
    \cup {[kind |-> "throws", hasEndorsements |-> TRUE, endorsements |-> e] :
            e \in SeqsUpTo({"endorsement"}, MaxEndorsements)}

RegistryReplies == {"local", "other", "throws"}


(***************************************************************************)
(* The command, one action per stretch of code between two awaits.         *)
(***************************************************************************)
\* Lines 29-62/74/84: submitTransaction(e, ...) is invoked and runs to its
\* first await.  item tells which arguments were passed.  Explorer items and
\* the callers that pass a channel and a contract exist only while a gateway
\* is connected; the command palette (no argument) is always available.
Invoke(e, item) ==
    /\ pc \in {"idle", "done"}
    /\ item # "none" => conn
    /\ evaluate' = e /\ entry' = item
    /\ argsString' = Unset /\ args' = JArr(<<>>)
    /\ transientDataString' = Unset /\ transientData' = Undefined
    /\ connection' = "unset" /\ channelPeerInfo' = Unset
    /\ selectPeers' = Unset /\ peerTargets' = Unset /\ peerTargetNames' = <<>>
    /\ reply' = NoReply
    /\ LET t == <<Log("INFO", <<Words(e).action, "Transaction">>)>>
       IN  IF item = "transaction" THEN Await("args", Append(t, Prompt("args")))
           ELSE IF item = "none"
                   THEN IF ~conn THEN Await("connect", Append(t, Call("executeCommand")))
                        ELSE Await("contract", Append(t, Prompt("contract")))
           ELSE Await("transaction", Append(t, Prompt("transaction")))
    /\ UNCHANGED <<conn, tplVars>>

\* Lines 55-62: the CONNECT_TO_GATEWAY command is over: it connected the
\* gateway, left it as it was (the user cancelled, or it failed), or threw.
ConnectReturns(r) ==
    /\ pc = "connect"
    /\ reply' = [from |-> "connect", reply |-> r]
    /\ conn' = (conn \/ r = Value("connected"))
    /\ IF r = Throws THEN Reject(trace)
       ELSE IF ~conn' THEN Return(trace)
       ELSE Await("contract", Append(trace, Prompt("contract")))
    /\ UNCHANGED <<evaluate, entry, argsString, args, transientDataString,
                   transientData, connection, channelPeerInfo, selectPeers,
                   peerTargets, peerTargetNames, tplVars>>

\* Lines 62-74: the smart-contract quick-pick is answered.
ContractPicked(r) ==
    /\ pc = "contract"
    /\ reply' = [from |-> "contract", reply |-> r]
    /\ IF r = Throws THEN Reject(trace)
       ELSE IF r = Cancelled THEN Return(trace)
       ELSE Await("transaction", Append(trace, Prompt("transaction")))
    /\ UNCHANGED <<evaluate, entry, argsString, args, transientDataString,
                   transientData, connection, channelPeerInfo, selectPeers,
                   peerTargets, peerTargetNames, conn, tplVars>>

\* Lines 74-84: the transaction quick-pick is answered.
TransactionPicked(r) ==
    /\ pc = "transaction"
    /\ reply' = [from |-> "transaction", reply |-> r]
    /\ IF r = Throws THEN Reject(trace)
       ELSE IF r = Cancelled THEN Return(trace)
       ELSE Await("args", Append(trace, Prompt("args")))
    /\ UNCHANGED <<evaluate, entry, argsString, args, transientDataString,
                   transientData, connection, channelPeerInfo, selectPeers,
                   peerTargets, peerTargetNames, conn, tplVars>>

\* Lines 84-104: the arguments input box is answered.
ArgsAnswered(r) ==
    /\ pc = "args"
    /\ reply' = [from |-> "args", reply |-> r]
    /\ argsString' = IF r = Throws THEN argsString ELSE r
    /\ IF r = Throws THEN Reject(trace) /\ args' = args
       ELSE IF r = Cancelled THEN Return(trace) /\ args' = args
       ELSE LET p == ParseArgs(r.val)
            IN  IF p.ok
                   THEN args' = p.val /\ Await("transient", Append(trace, Prompt("transient")))
                ELSE /\ args' = args
                     /\ Return(Append(trace, Log("ERROR", <<"Error with transaction arguments">>)))
    /\ UNCHANGED <<evaluate, entry, transientDataString, transientData, connection,
                   channelPeerInfo, selectPeers, peerTargets, peerTargetNames, conn, tplVars>>

\* Lines 104-125: the transient-data input box is answered; on success the
\* command reads the connection of the manager and calls getChannelPeersInfo
\* on it, which is a TypeError when the manager holds none.
TransientAnswered(r) ==
    /\ pc = "transient"
    /\ reply' = [from |-> "transient", reply |-> r]
    /\ transientDataString' = IF r = Throws THEN transientDataString ELSE r
    /\ LET failed == Return(Append(trace,
                        Log("ERROR", <<"Error with transaction transient data">>)))
           stay == transientData' = transientData /\ connection' = connection
       IN  IF r = Throws THEN failed /\ stay
           ELSE IF r = Cancelled THEN Return(trace) /\ stay
           ELSE LET p == ParseTransient(r.val)
                IN  IF ~p.ok THEN failed /\ stay
                    ELSE /\ transientData' = p.val
                         /\ connection' = IF conn THEN "live" ELSE "null"
                         /\ IF conn
                               THEN Await("peersInfo", Append(trace, Call("getChannelPeersInfo")))
                            ELSE Reject(trace)
    /\ UNCHANGED <<evaluate, entry, argsString, args, channelPeerInfo, selectPeers,
                   peerTargets, peerTargetNames, conn, tplVars>>

\* Lines 158-183 run with peer targets names: either the SDK call is made
\* and awaited, or getGatewayRegistryEntry threw and the callback is over.
Progress(names, reg) ==
    LET b == ProgressBody(trace, names, reg)
    IN  IF b.pc = "done" THEN Return(b.trace) ELSE Await("sdk", b.trace)

\* Lines 125-183: getChannelPeersInfo is over.
PeersInfoReturns(r, reg) ==
    /\ pc = "peersInfo"
    /\ reply' = [from |-> "peersInfo", reply |-> r]
    /\ IF r = Throws
          THEN Reject(trace) /\ UNCHANGED <<channelPeerInfo, selectPeers>>
       ELSE /\ channelPeerInfo' = r
            /\ LET policy == PeerPolicy(r.val)
               IN  IF policy = "abort"
                      THEN /\ Return(Append(trace,
                                Log("ERROR", <<"No channel peers available to target">>)))
                           /\ selectPeers' = selectPeers
                   ELSE IF policy = DEFAULT
                      THEN selectPeers' = Value(DEFAULT) /\ Progress(<<>>, reg)
                   ELSE /\ Await("policy", Append(trace, Prompt("policy")))
                        /\ selectPeers' = selectPeers
    /\ UNCHANGED <<evaluate, entry, argsString, args, transientDataString,
                   transientData, connection, peerTargets, peerTargetNames, conn, tplVars>>

\* Lines 135-183: the peer-targeting policy quick-pick is answered.
PolicyPicked(r, reg) ==
    /\ pc = "policy"
    /\ reply' = [from |-> "policy", reply |-> r]
    /\ IF r = Throws THEN Reject(trace) /\ selectPeers' = selectPeers
       ELSE /\ selectPeers' = r
            /\ LET targeting == PeerTargeting(r)
               IN  IF targeting = "return" THEN Return(trace)
                   ELSE IF targeting = CUSTOM
                      THEN Await("peers", Append(trace, Prompt("peers")))
                   ELSE Progress(<<>>, reg)
    /\ UNCHANGED <<evaluate, entry, argsString, args, transientDataString,
                   transientData, connection, channelPeerInfo, peerTargets, peerTargetNames,
                   conn, tplVars>>

\* Lines 145-183: the peer-selection quick-pick is answered.
PeersPicked(r, reg) ==
    /\ pc = "peers"
    /\ reply' = [from |-> "peers", reply |-> r]
    /\ peerTargets' = IF r = Throws THEN peerTargets ELSE r
    /\ IF r = Throws THEN Reject(trace) /\ peerTargetNames' = peerTargetNames
       ELSE IF r = Cancelled \/ Len(r.val) = 0
          THEN Return(trace) /\ peerTargetNames' = peerTargetNames
       ELSE /\ peerTargetNames' = MapData(r.val)
            /\ Progress(MapData(r.val), reg)
    /\ UNCHANGED <<evaluate, entry, argsString, args, transientDataString,
                   transientData, connection, channelPeerInfo, selectPeers,
                   conn, tplVars>>

\* Lines 179-204: connection.submitTransaction is over: it returned a value
\* or undefined, or threw.
SdkReturns(r) ==
    /\ pc = "sdk"
    /\ reply' = [from |-> "sdk", reply |-> r]
    /\ IF r.kind = "throws" THEN Return(OnError(trace, r))
       ELSE Return(OnReturn(trace, r))
    /\ UNCHANGED <<evaluate, entry, argsString, args, transientDataString,
                   transientData, connection, channelPeerInfo, selectPeers,
                   peerTargets, peerTargetNames, conn, tplVars>>

(***************************************************************************)
(* Other commands of the extension, which run whenever this one is not     *)
(* running: before it, after it, or while it is suspended at an await.     *)
(***************************************************************************)
GatewayConnect ==
    /\ ~conn /\ pc # "connect"
    /\ conn' = TRUE
    /\ UNCHANGED <<cmdVars, tplVars>>

GatewayDisconnect ==
    /\ conn
    /\ conn' = FALSE
    /\ UNCHANGED <<cmdVars, tplVars>>

Replies(S) == {Throws, Cancelled} \cup {Value(v) : v \in S}

\* The replies of the peer-selection quick-pick, shown with channelPeerInfo.
PeerReplies ==
    IF channelPeerInfo = Unset THEN {} ELSE Replies(Selections(channelPeerInfo.val))

Next ==
    \/ \E e \in BOOLEAN, item \in {"none", "instantiated", "transaction", "explicit"} :
          Invoke(e, item)
    \/ \E r \in {Throws, Value("connected"), Value("declined")} : ConnectReturns(r)
    \/ \E r \in Replies({"contract"}) : ContractPicked(r)
    \/ \E r \in Replies({"transaction"}) : TransactionPicked(r)
    \/ \E r \in Replies(Strings) : ArgsAnswered(r)
    \/ \E r \in Replies(Strings) : TransientAnswered(r)
    \/ \E r \in {Throws} \cup {Value(l) : l \in PeerLists}, reg \in RegistryReplies :
          PeersInfoReturns(r, reg)
    \/ \E r \in Replies({DEFAULT, CUSTOM}), reg \in RegistryReplies : PolicyPicked(r, reg)
    \/ \E r \in PeerReplies, reg \in RegistryReplies : PeersPicked(r, reg)
    \/ \E r \in {Cancelled, Value("result")} \cup SdkErrors : SdkReturns(r)
    \/ GatewayConnect
    \/ GatewayDisconnect

Spec == Init /\ [][Next]_vars


(***************************************************************************)
(* The functional-test template: the block it emits for one transaction    *)
(* of transactions.forEach.                                                *)
(***************************************************************************)
\* Parameter names, as sequences of characters; one holds double quotes.
Names == {<<"x">>, <<"\"", "y", "\"">>}

\* parameter.schema: absent, without a type (a reference to a component
\* schema), or with one of the types of the contract metadata.
SchemaTypes == {"string", "number", "boolean", "array", "object"}

Schemas ==
    {[given |-> FALSE, type |-> "none"], [given |-> TRUE, type |-> "none"]}
    \cup {[given |-> TRUE, type |-> t] : t \in SchemaTypes}

Parameters == [name : Names, schema : Schemas]

\* transaction.parameters is absent, or a list.
Transactions ==
    {[given |-> TRUE, hasParameters |-> FALSE, parameters |-> <<>>]}
    \cup {[given |-> TRUE, hasParameters |-> TRUE, parameters |-> l] :
            l \in SeqsUpTo(Parameters, MaxParams)}

\* name.replace(`"`, ''): the first double quote is removed.
RECURSIVE RemoveQuote(_)
RemoveQuote(name) ==
    IF name = <<>> THEN <<>>
    ELSE IF Head(name) = "\"" THEN Tail(name)
    ELSE <<Head(name)>> \o RemoveQuote(Tail(name))

\* A line `const <name> = <value>;` and an element of params.
Const(name, value) == [name |-> name, value |-> value]

Param(form, name) == [form |-> form, name |-> name]

\* Lines 79-96: what one parameter adds to the constants and to params.
EmitParameter(parameter) ==
    LET n == RemoveQuote(parameter.name)
        one(form, value) == [consts |-> <<Const(n, value)>>, params |-> <<Param(form, n)>>]
    IN  IF parameter.schema.given /\ parameter.schema.type # "none"
           THEN CASE parameter.schema.type = "string" -> one("name", "'EXAMPLE'")
                  [] parameter.schema.type = "number" -> one("toString", "0")
                  [] parameter.schema.type = "boolean" -> one("toString", "true")
                  [] parameter.schema.type = "array" -> one("stringify", "[]")
                  [] OTHER -> [consts |-> <<>>, params |-> <<>>]
        ELSE one("stringify", "{}")

\* Lines 78-97: transaction.parameters.forEach from parameter i on.
RECURSIVE EmitParameters(_, _)
EmitParameters(parameters, i) ==
    IF i > Len(parameters) THEN [consts |-> <<>>, params |-> <<>>]
    ELSE LET head == EmitParameter(parameters[i])
             rest == EmitParameters(parameters, i + 1)
         IN  [consts |-> head.consts \o rest.consts, params |-> head.params \o rest.params]

\* Lines 73-108: the test generated for a transaction: the comment, the
\* constants and the elements of `const args = [...]`.
RenderTransaction(t) ==
    IF t.hasParameters /\ Len(t.parameters) > 0
       THEN LET e == EmitParameters(t.parameters, 1)
            IN  [given |-> TRUE, todo |-> "populate transaction parameters",
                 consts |-> e.consts, args |-> e.params]
    ELSE [given |-> TRUE, todo |-> "Update with parameters of transaction",
          consts |-> <<>>, args |-> <<>>]

\* Lines 72-109: one iteration of transactions.forEach.
ForEachTransaction(t) ==
    /\ transaction' = t
    /\ generated' = RenderTransaction(t)
    /\ UNCHANGED <<cmdVars, conn>>

NextTemplate == \E t \in Transactions : ForEachTransaction(t)

SpecTemplate == Init /\ [][NextTemplate]_vars


(***************************************************************************)
(* What the claims are stated with.                                        *)
(***************************************************************************)
Events(op) == SelectSeq(trace, LAMBDA e : e.op = op)

Errors == SelectSeq(trace, LAMBDA e : e.op = "log" /\ e.type = "ERROR")

Successes == SelectSeq(trace, LAMBDA e : e.op = "log" /\ e.type = "SUCCESS")

SdkCalls == Events("submitTransaction")

Telemetry == Events("sendTelemetryEvent")

Shown(which) == \E i \in 1..Len(trace) : trace[i] = Prompt(which)

\* The place of the first event e of trace, 0 if there is none.
First(e) ==
    IF \E i \in 1..Len(trace) : trace[i] = e
       THEN CHOOSE i \in 1..Len(trace) : trace[i] = e /\ \A j \in 1..(i - 1) : trace[j] # e
    ELSE 0

FirstSdkCall ==
    IF SdkCalls = <<>> THEN 0
    ELSE CHOOSE i \in 1..Len(trace) :
            trace[i].op = "submitTransaction" /\ \A j \in 1..(i - 1) : trace[j].op # "submitTransaction"

Returned == pc = "done" /\ outcome = "resolved"

PromptNames == {"contract", "transaction", "args", "transient", "policy", "peers"}

ErrArgs == Log("ERROR", <<"Error with transaction arguments">>)

ErrTransient == Log("ERROR", <<"Error with transaction transient data">>)

ErrNoPeers == Log("ERROR", <<"No channel peers available to target">>)

ErrSdk == Log("ERROR", <<"Error", actioning, "transaction">>)

\* A non-empty arguments string that does not start with '[' and end with
\* ']', or that JSON.parse rejects.
MalformedArgs(s) ==
    /\ s # <<>>
    /\ \/ s[1] # "[" \/ s[Len(s)] # "]"
       \/ ~JSONparse(s).ok

\* C1: malformed argument JSON aborts the command: it returns having logged
\* exactly one ERROR, 'Error with transaction arguments', it shows neither
\* the transient-data prompt nor a peer prompt, and it never calls
\* connection.submitTransaction.
C1_MalformedArgsAbort ==
    (argsString.kind = "value" /\ MalformedArgs(argsString.val)) =>
        /\ Returned
        /\ Errors = <<ErrArgs>>
        /\ ~Shown("transient") /\ ~Shown("policy") /\ ~Shown("peers")
        /\ SdkCalls = <<>>

\* The malformed string passes the bracket check and is rejected by
\* JSON.parse.
C1_Witness ==
    /\ argsString = Value(<<"[", ",", "]">>)
    /\ Returned /\ Errors = <<ErrArgs>>

\* C2 as claimed: with zero channel peers the command aborts before showing
\* any prompt at all, logs 'No channel peers available to target' and never
\* calls connection.submitTransaction.
C2_NoPromptAtAll ==
    channelPeerInfo = Value(<<>>) =>
        /\ Returned
        /\ Events("prompt") = <<>>
        /\ Errors = <<ErrNoPeers>>
        /\ SdkCalls = <<>>

\* C2 amended: with zero channel peers the command aborts before any peer
\* prompt: neither the peer-targeting policy quick-pick nor the
\* peer-selection quick-pick is shown (the arguments and the transient-data
\* input boxes have been shown and answered before), the ERROR 'No channel
\* peers available to target' is logged and connection.submitTransaction is
\* never called.
C2_NoPeerPromptOnZeroPeers ==
    channelPeerInfo = Value(<<>>) =>
        /\ Returned
        /\ ~Shown("policy") /\ ~Shown("peers")
        /\ Shown("args") /\ Shown("transient")
        /\ Errors = <<ErrNoPeers>>
        /\ SdkCalls = <<>>

C2_Witness ==
    /\ channelPeerInfo = Value(<<>>)
    /\ Returned /\ Errors = <<ErrNoPeers>>

\* C3: every failure the command meets (an exception of an awaited
\* collaborator, malformed JSON input) is caught and logged: the promise of
\* the command resolves, never rejects, and at least one ERROR is logged.
C3_AllFailuresCaught ==
    /\ outcome # "rejected"
    /\ (\/ reply.reply.kind = "throws"
        \/ argsString.kind = "value" /\ MalformedArgs(argsString.val))
          => Returned /\ Errors # <<>>

\* C4 as claimed: an invocation that called connection.submitTransaction and
\* is over has sent exactly one telemetry event '<action> transaction',
\* whether the call returned or threw; one that made no call has sent none.
C4_TelemetryPerCall ==
    /\ Len(Telemetry) <= Len(SdkCalls)
    /\ pc = "done" =>
          /\ Len(Telemetry) = Len(SdkCalls)
          /\ \A i \in 1..Len(Telemetry) : Telemetry[i].name = <<action, "transaction">>

\* The SDK call of the invocation is over and returned without throwing.
SdkReturned == pc = "done" /\ reply.from = "sdk" /\ reply.reply.kind # "throws"

\* C4 amended: exactly one telemetry event, named '<action> transaction'
\* ('evaluate' when the evaluate flag is true, 'submit' otherwise), is sent in
\* every invocation in which connection.submitTransaction is called and
\* returns; when the SDK call throws, and when the invocation ends before
\* the SDK call, no telemetry event is sent.
C4_TelemetryPerReturnedCall ==
    IF SdkReturned
       THEN /\ Len(SdkCalls) = 1
            /\ Telemetry = << [op |-> "sendTelemetryEvent",
                               name |-> <<IF evaluate THEN "evaluate" ELSE "submit",
                                          "transaction">>] >>
    ELSE Telemetry = <<>>

\* Both outcomes of the call have happened in the witness: a call under
\* evaluate that threw with an endorsement, sending nothing.
C4_Witness ==
    /\ pc = "done" /\ evaluate /\ SdkCalls # <<>>
    /\ reply.from = "sdk" /\ reply.reply.kind = "throws"
    /\ Telemetry = <<>>


\* C5: the command is a linear sequence.  connection.submitTransaction is
\* called only after, in this order, the target is resolved, the arguments
\* prompt and the transient-data prompt are answered, getChannelPeersInfo
\* has returned and the peer-targeting policy is resolved.  When the user
\* cancels a prompt the command returns: that prompt is the last thing it
\* did, it logs no ERROR and it never calls connection.submitTransaction.
C5_LinearSequence ==
    /\ SdkCalls # <<>> =>
          LET a == First(Prompt("args"))
              t == First(Prompt("transient"))
              g == First(Call("getChannelPeersInfo"))
              p == First(Prompt("policy"))
              k == FirstSdkCall
          IN  /\ 0 < a /\ a < t /\ t < g /\ g < k
              /\ entry # "transaction" =>
                    0 < First(Prompt("transaction")) /\ First(Prompt("transaction")) < a
              /\ entry = "none" =>
                    /\ 0 < First(Prompt("contract"))
                    /\ First(Prompt("contract")) < First(Prompt("transaction"))
              /\ argsString.kind = "value" /\ transientDataString.kind = "value"
              /\ channelPeerInfo.kind = "value"
              /\ selectPeers \in {Value(DEFAULT), Value(CUSTOM)}
              /\ p # 0 => g < p /\ p < k
              /\ Shown("peers") => p < First(Prompt("peers")) /\ First(Prompt("peers")) < k
    /\ (reply.from \in PromptNames /\ reply.reply = Cancelled) =>
          /\ Returned
          /\ trace[Len(trace)] = Prompt(reply.from)
          /\ Errors = <<>>
          /\ SdkCalls = <<>>

\* The user went through every prompt and cancelled the last one.
C5_Witness ==
    /\ entry = "none" /\ reply = [from |-> "peers", reply |-> Cancelled]
    /\ Returned /\ Shown("contract") /\ Shown("policy")

\* C6: the test generated for a transaction declares one constant per
\* declared parameter and gives args one element per declared parameter, in
\* declaration order, whatever the schema kinds (string, number, boolean,
\* array, object) of the parameters; without parameters args is empty.
C6_OneArgPerParameter ==
    generated.given =>
        LET ps == IF transaction.hasParameters THEN transaction.parameters ELSE <<>>
        IN  /\ Len(generated.consts) = Len(ps)
            /\ Len(generated.args) = Len(ps)
            /\ \A i \in 1..Len(ps) :
                  /\ generated.consts[i].name = RemoveQuote(ps[i].name)
                  /\ generated.args[i].name = RemoveQuote(ps[i].name)

\* C7: no retry.  connection.submitTransaction is called at most once in an
\* invocation.  When the call throws, the command returns having logged
\* 'Error <actioning> transaction' and then one 'Endorsement failed with'
\* ERROR per endorsement of the error, and no SUCCESS.  A SUCCESS is logged
\* only when the call returned.
C7_NoRetry ==
    /\ Len(SdkCalls) <= 1
    /\ (reply.from = "sdk" /\ reply.reply.kind = "throws") =>
          LET n == IF reply.reply.hasEndorsements THEN Len(reply.reply.endorsements) ELSE 0
          IN  /\ Returned
              /\ Errors = <<ErrSdk>> \o
                    [i \in 1..n |-> Log("ERROR", <<"Endorsement failed with",
                                                  reply.reply.endorsements[i]>>)]
              /\ SubSeq(trace, Len(trace) - n, Len(trace)) = Errors
              /\ trace[Len(trace) - n - 1].op = "submitTransaction"
              /\ Successes = <<>>
    /\ Successes # <<>> => SdkReturned /\ Len(Successes) = 1

\* The SDK call threw an error that carries an endorsement.
C7_Witness ==
    /\ reply.from = "sdk" /\ reply.reply.kind = "throws"
    /\ reply.reply.hasEndorsements /\ Len(reply.reply.endorsements) > 0
    /\ Returned /\ Len(SdkCalls) = 1

\* C8: the policy quick-pick is shown exactly when the channel has two or
\* more peers; with one peer DEFAULT is used without a prompt.  The
\* peer-selection quick-pick is shown exactly when CUSTOM was chosen.  The
\* SDK call receives no peer target under DEFAULT and, under CUSTOM, the
\* non-empty list of the selected names in selection order; an empty
\* selection never reaches the SDK call.
C8_PeerTargeting ==
    LET known == channelPeerInfo.kind = "value"
    IN  /\ Shown("policy") <=> (known /\ Len(channelPeerInfo.val) >= 2)
        /\ (known /\ Len(channelPeerInfo.val) = 1) =>
              selectPeers = Value(DEFAULT) /\ ~Shown("policy")
        /\ Shown("peers") <=> selectPeers = Value(CUSTOM)
        /\ SdkCalls # <<>> =>
              \/ selectPeers = Value(DEFAULT) /\ SdkCalls[1].peerTargets = <<>>
              \/ /\ selectPeers = Value(CUSTOM)
                 /\ peerTargets.kind = "value" /\ Len(peerTargets.val) > 0
                 /\ SdkCalls[1].peerTargets =
                       [i \in 1..Len(peerTargets.val) |-> peerTargets.val[i].data]
        /\ peerTargets = Value(<<>>) => Returned /\ SdkCalls = <<>>

\* Two peers were selected, the second of the channel first.
C8_Witness ==
    /\ selectPeers = Value(CUSTOM) /\ SdkCalls # <<>>
    /\ peerTargets = Value(<<PeerItem(2), PeerItem(1)>>)

\* A value Buffer.from converts: a string or an array.
Convertible(v) == v.t = "str" \/ v.t = "arr"

\* A non-empty transient-data string that does not start with '{' and end
\* with '}', or fails to parse, or holds a value that is not convertible.
MalformedTransient(s) ==
    /\ s # <<>>
    /\ \/ s[1] # "{" \/ s[Len(s)] # "}"
       \/ ~JSONparse(s).ok
       \/ \E k \in DOMAIN JSONparse(s).val.members :
             ~Convertible(JSONparse(s).val.members[k])

\* C9: with the transient-data string '' or '{}' the SDK call receives an
\* undefined transientData; with a malformed one the command returns having
\* logged exactly one ERROR, 'Error with transaction transient data', and
\* calls neither getChannelPeersInfo nor connection.submitTransaction;
\* otherwise the SDK call receives a map with exactly the keys of the parsed
\* object, every value converted to a Buffer.
C9_TransientData ==
    transientDataString.kind = "value" =>
        LET s == transientDataString.val
        IN  IF s = <<>> \/ s = <<"{", "}">>
               THEN SdkCalls # <<>> => SdkCalls[1].transientData = Undefined
            ELSE IF MalformedTransient(s)
               THEN /\ Returned
                    /\ Errors = <<ErrTransient>>
                    /\ Events("getChannelPeersInfo") = <<>>
                    /\ SdkCalls = <<>>
            ELSE SdkCalls # <<>> =>
                    LET parsed == JSONparse(s).val.members
                        sent == SdkCalls[1].transientData
                    IN  /\ sent.t = "obj"
                        /\ DOMAIN sent.members = DOMAIN parsed
                        /\ \A k \in DOMAIN parsed :
                              sent.members[k] = [t |-> "buf", from |-> parsed[k]]

\* A map of two keys reached the SDK call.
C9_Witness ==
    /\ transientDataString =
          Value(<<"{", "a", ":", "b", ",", "b", ":", "[", "1", "]", "}">>)
    /\ SdkCalls # <<>>
    /\ DOMAIN SdkCalls[1].transientData.members = {"a", "b"}

\* C10: whenever the command reads the connection of the manager and calls
\* getChannelPeersInfo, and whenever it calls connection.submitTransaction,
\* the connection manager holds a live connection.
C10_ConnectionHeld ==
    [][ /\ connection' # "null"
        /\ (pc' = "peersInfo" /\ pc # "peersInfo") => conn'
        /\ (pc' = "sdk" /\ pc # "sdk") => conn' ]_vars

====
